---- MODULE Spec2Model ----
(***************************************************************************)
(* Model of backend_app.py: the username extractor, the four platform     *)
(* fetchers and the get_stats aggregator.                                  *)
(*                                                                         *)
(* Text is modelled as a sequence of one-character strings, so that the    *)
(* regular expressions, strip('/'), lower() and isdigit() of the source    *)
(* are computed character by character.  A JSON / Python value is a tagged *)
(* record: [t |-> "str", s |-> chars], [t |-> "int", n |-> n],             *)
(* [t |-> "bool", b |-> b], [t |-> "null"] (Python's None).                *)
(* The outcome of a call is Ret(v) (it returned v) or Raise(e) (it raised  *)
(* exception e to its caller).                                             *)
(***************************************************************************)
EXTENDS Integers, Sequences, FiniteSets, TLC

VARIABLES
    pc,          \* get_stats: "idle", "gathering", "responded"
    body,        \* the JSON body of the request (request.get_json())
    keys,        \* platform_keys_in_order
    task,        \* the coroutines handed to asyncio.gather, by position
    completed,   \* positions of the tasks in the order they completed
    clock,       \* time units elapsed since the batch was launched
    response,    \* what get_stats answered
    exIn, exOut, \* extract_username: argument pair and outcome
    fIn, fOut    \* a fetcher run on its own: arguments and outcome

vars == <<pc, body, keys, task, completed, clock, response, exIn, exOut, fIn, fOut>>

aggVars == <<pc, body, keys, task, completed, clock, response>>
exVars == <<exIn, exOut>>
fVars == <<fIn, fOut>>

----------------------------------------------------------------------------
(* Values and outcomes *)

StrV(s) == [t |-> "str", s |-> s]
IntV(n) == [t |-> "int", n |-> n]
BoolV(b) == [t |-> "bool", b |-> b]
NoneV == [t |-> "null"]

Ret(v) == [k |-> "return", v |-> v]
Raise(e) == [k |-> "raise", exc |-> e]

\* Python truthiness of a value (`if urls[k]`, `if not username`)
Truthy(v) ==
    CASE v.t = "str" -> Len(v.s) > 0
      [] v.t = "int" -> v.n # 0
      [] v.t = "bool" -> v.b
      [] OTHER -> FALSE

----------------------------------------------------------------------------
(* Text helpers *)

UpperChars == <<"A","B","C","D","E","F","G","H","I","J","K","L","M",
                "N","O","P","Q","R","S","T","U","V","W","X","Y","Z">>
LowerChars == <<"a","b","c","d","e","f","g","h","i","j","k","l","m",
                "n","o","p","q","r","s","t","u","v","w","x","y","z">>
DigitChars == <<"0","1","2","3","4","5","6","7","8","9">>

Range(s) == {s[i] : i \in DOMAIN s}

IsAlpha(c) == c \in Range(UpperChars) \cup Range(LowerChars)
IsDigit(c) == c \in Range(DigitChars)

\* str.lower(), one character
LowerChar(c) ==
    IF c \in Range(UpperChars)
    THEN LowerChars[CHOOSE i \in DOMAIN UpperChars : UpperChars[i] = c]
    ELSE c

\* str.lower()
Lower(s) == [i \in DOMAIN s |-> LowerChar(s[i])]

\* s[i:] of Python, with i a 1-based position
From(s, i) == SubSeq(s, i, Len(s))

\* s[i:].startswith(w), i 1-based
StartsWithAt(s, i, w) ==
    /\ i + Len(w) - 1 <= Len(s)
    /\ \A j \in 1..Len(w) : s[i + j - 1] = w[j]

\* w in s
Contains(s, w) == \E i \in 1..(Len(s) + 1) : StartsWithAt(s, i, w)

\* s.find(c) as a 1-based position, 0 when c is not in s
Find(s, c) ==
    IF \E i \in DOMAIN s : s[i] = c
    THEN CHOOSE i \in DOMAIN s : s[i] = c /\ \A j \in 1..(i - 1) : s[j] # c
    ELSE 0

\* first position at or after i holding one of the characters cs; Len(s)+1 if none
FindAny(s, i, cs) ==
    IF \E j \in i..Len(s) : s[j] \in cs
    THEN CHOOSE j \in i..Len(s) : s[j] \in cs /\ \A m \in i..(j - 1) : s[m] \notin cs
    ELSE Len(s) + 1

\* str.strip('/')
Strip(s) ==
    IF \A i \in DOMAIN s : s[i] = "/"
    THEN << >>
    ELSE LET a == CHOOSE i \in DOMAIN s : s[i] # "/" /\ \A j \in 1..(i - 1) : s[j] = "/"
             b == CHOOSE i \in DOMAIN s : s[i] # "/" /\ \A j \in (i + 1)..Len(s) : s[j] = "/"
         IN SubSeq(s, a, b)

\* the group ([^/]+) matched at position i: the longest run of non-slash
\* characters from i (empty when there is none, i.e. the group fails)
Segment(s, i) == SubSeq(s, i, FindAny(s, i, {"/"}) - 1)

----------------------------------------------------------------------------
(* urllib.parse.urlparse, as far as extract_username reads it: the path.   *)
(* The texts of the model hold no ';', no white space and no control       *)
(* characters, so the params split and the leading strip change nothing.   *)

SchemeChars == Range(UpperChars) \cup Range(LowerChars) \cup Range(DigitChars)
                 \cup {"+", "-", "."}

\* the split at '#' and then at '?': what is left is the path
CutAt(s, pos) == IF pos > 0 THEN SubSeq(s, 1, pos - 1) ELSE s

DropFragment(s) == CutAt(s, Find(s, "#"))

PathOf(s) == CutAt(DropFragment(s), Find(DropFragment(s), "?"))

\* url[:2] == '//': the netloc runs to the first of '/', '?', '#'; a netloc
\* with one square bracket and not the other raises ValueError
NetlocOf(rest) == SubSeq(rest, 3, FindAny(rest, 3, {"/", "?", "#"}) - 1)

AfterNetloc(rest) == From(rest, FindAny(rest, 3, {"/", "?", "#"}))

SplitNetloc(scheme, rest) ==
    IF StartsWithAt(rest, 1, <<"/", "/">>)
    THEN IF ("[" \in Range(NetlocOf(rest))) # ("]" \in Range(NetlocOf(rest)))
         THEN Raise("ValueError")
         ELSE Ret([scheme |-> scheme, netloc |-> NetlocOf(rest),
                   path |-> PathOf(AfterNetloc(rest))])
    ELSE Ret([scheme |-> scheme, netloc |-> << >>, path |-> PathOf(rest)])

\* the text before the first ':' (at position i) is a scheme when it starts
\* with a letter and holds scheme characters only
SplitScheme(s, i) ==
    IF /\ i > 1
       /\ IsAlpha(s[1])
       /\ \A j \in 1..(i - 1) : s[j] \in SchemeChars
    THEN SplitNetloc(Lower(SubSeq(s, 1, i - 1)), From(s, i + 1))
    ELSE SplitNetloc(<< >>, s)

urlparse(url) ==
    IF url.t # "str"
    THEN Raise("AttributeError")
    ELSE SplitScheme(url.s, Find(url.s, ":"))

----------------------------------------------------------------------------
(* The four patterns of extract_username.  Each operator yields the text   *)
(* of group 1, or << >> when the pattern does not match (a group [^/]+ is  *)
(* never empty).                                                           *)

w_u == <<"u", "/">>
w_user == <<"u", "s", "e", "r", "/">>
w_users == <<"u", "s", "e", "r", "s", "/">>
w_profile == <<"p", "r", "o", "f", "i", "l", "e", "/">>

\* <prefix>([^/]+) tried at position i
PrefixedAt(path, i, prefix) ==
    IF StartsWithAt(path, i, prefix)
    THEN Segment(path, i + Len(prefix))
    ELSE << >>

\* (?:<prefix>)?([^/]+) tried at position i: the prefix is taken when the
\* group then matches, and given up otherwise
OptPrefixedAt(path, i, prefix) ==
    IF PrefixedAt(path, i, prefix) # << >>
    THEN PrefixedAt(path, i, prefix)
    ELSE Segment(path, i)

\* (?:user/|profile/)([^/]+) tried at position i
UserOrProfileAt(path, i) ==
    IF PrefixedAt(path, i, w_user) # << >>
    THEN PrefixedAt(path, i, w_user)
    ELSE PrefixedAt(path, i, w_profile)

\* the pattern without its optional u/ prefix
MatchLeetcode_NoPrefix(path) == Segment(path, 1)

\* re.match(r"^(?:u/)?([^/]+)", path)
MatchLeetcode(path) == OptPrefixedAt(path, 1, w_u)

\* re.search(r"(?:user/|profile/)([^/]+)", path): the leftmost match
SearchGfg(path) ==
    IF \E i \in DOMAIN path : UserOrProfileAt(path, i) # << >>
    THEN UserOrProfileAt(path,
            CHOOSE i \in DOMAIN path :
                /\ UserOrProfileAt(path, i) # << >>
                /\ \A j \in 1..(i - 1) : UserOrProfileAt(path, j) = << >>)
    ELSE << >>

\* re.match(r"users/([^/]+)", path)
MatchCodechef(path) == PrefixedAt(path, 1, w_users)

\* re.search(r"(?:profile/)?([^/]+)", path): the leftmost match
SearchHackerrank(path) ==
    IF \E i \in DOMAIN path : OptPrefixedAt(path, i, w_profile) # << >>
    THEN OptPrefixedAt(path,
            CHOOSE i \in DOMAIN path :
                /\ OptPrefixedAt(path, i, w_profile) # << >>
                /\ \A j \in 1..(i - 1) : OptPrefixedAt(path, j, w_profile) = << >>,
            w_profile)
    ELSE << >>

GroupOrNone(g) == IF g # << >> THEN StrV(g) ELSE NoneV

\* lines 22-45, on the stripped path
UsernameIn(path, platform) ==
    CASE platform = "leetcode" -> GroupOrNone(MatchLeetcode(path))
      [] platform = "geeksforgeeks" ->
            IF SearchGfg(path) # << >>
            THEN StrV(SearchGfg(path))
            ELSE IF path # << >> /\ "/" \notin Range(path)
                 THEN StrV(path)
                 ELSE NoneV
      [] platform = "codechef" -> GroupOrNone(MatchCodechef(path))
      [] platform = "hackerrank" -> GroupOrNone(SearchHackerrank(path))
      [] OTHER -> NoneV

\* lines 20-45, once urlparse has returned or raised
ExtractFrom(parsed, platform) ==
    IF parsed.k = "raise"
    THEN parsed
    ELSE Ret(UsernameIn(Strip(parsed.v.path), platform))

extract_username(url, platform) == ExtractFrom(urlparse(url), platform)

----------------------------------------------------------------------------
(* Numbers and text: int(), str(), str.isdigit() *)

DigitValue(c) == (CHOOSE i \in DOMAIN DigitChars : DigitChars[i] = c) - 1

\* str.isdigit(): not empty, every character a digit
IsDigitText(s) == s # << >> /\ \A i \in DOMAIN s : IsDigit(s[i])

RECURSIVE ParseInt(_)
\* int(s) of a text of decimal digits
ParseInt(s) ==
    IF s = << >>
    THEN 0
    ELSE ParseInt(SubSeq(s, 1, Len(s) - 1)) * 10 + DigitValue(s[Len(s)])

RECURSIVE NatText(_)
NatText(n) ==
    IF n < 10
    THEN <<DigitChars[n + 1]>>
    ELSE NatText(n \div 10) \o <<DigitChars[(n % 10) + 1]>>

\* str(v) of an int, a bool or a str
PyStr(v) ==
    CASE v.t = "int" -> IF v.n < 0 THEN <<"-">> \o NatText(-v.n) ELSE NatText(v.n)
      [] v.t = "bool" -> IF v.b THEN <<"T", "r", "u", "e">>
                                ELSE <<"F", "a", "l", "s", "e">>
      [] v.t = "str" -> v.s
      [] OTHER -> <<"N", "o", "n", "e">>

\* int(v) of an int, a bool or a text of digits
PyInt(v) ==
    CASE v.t = "int" -> v.n
      [] v.t = "bool" -> IF v.b THEN 1 ELSE 0
      [] OTHER -> ParseInt(v.s)

----------------------------------------------------------------------------
(* PlatformResult *)

NA == StrV(<<"N", "/", "A">>)

Solved(n, url) == [solved |-> n, url |-> url]
Failed(url, msg, code) ==
    [solved |-> NA, url |-> url, error |-> [msg |-> msg, code |-> code]]

\* {"solved": "N/A", "url": ""}
Placeholder == [solved |-> NA, url |-> StrV(<< >>)]

----------------------------------------------------------------------------
(* What the upstream does with the one network call of a fetcher:          *)
(*   [kind |-> "neterr"]    the call raises aiohttp.ClientError            *)
(*   [kind |-> "timeout"]   the ClientTimeout of the call expires          *)
(*   [kind |-> "http", status |-> n, page |-> p]  a response arrives       *)
(* A page is given by what the parser and the patterns of the fetcher find *)
(* in it (see each fetcher).                                               *)

NetErr == [kind |-> "neterr"]
TimedOut == [kind |-> "timeout"]
Http(status, page) == [kind |-> "http", status |-> status, page |-> page]

Continue == [k |-> "continue"]

\* a fetcher: what it does before its network call, and after it otherwise
Then(before, after) == IF before # Continue THEN before ELSE Ret(after)

\* `if not username: return {...}` after an extraction outside a try block:
\* what the extraction raises leaves the fetcher
CheckUsername(username, url, msg) ==
    IF username.k = "raise" THEN username
    ELSE IF ~Truthy(username.v) THEN Ret(Failed(url, msg, 0))
    ELSE Continue

\* fetch_leetcode_stats up to its network call (lines 54-56)
LeetcodeBefore(url) ==
    CheckUsername(extract_username(url, "leetcode"), url,
                  "Invalid LeetCode URL format.")

RECURSIVE LeetcodeScan(_, _, _)
\* for stat in stats: if stat["difficulty"] == "All": return stat["count"]
\* a stat without the key read raises KeyError, caught as "unexpected error"
LeetcodeScan(stats, i, url) ==
    IF i > Len(stats)
    THEN Failed(url, "LeetCode: Solved problem count for 'All' difficulty not found.", 0)
    ELSE IF "difficulty" \notin DOMAIN stats[i]
    THEN Failed(url, "LeetCode unexpected error", 0)
    ELSE IF stats[i].difficulty = "All"
    THEN IF "count" \in DOMAIN stats[i]
         THEN Solved(stats[i].count, url)
         ELSE Failed(url, "LeetCode unexpected error", 0)
    ELSE LeetcodeScan(stats, i + 1, url)

\* A LeetCode page is the response body:
\*   [form |-> "malformed"]   not JSON
\*   [form |-> "nodata"]      no "data", or data without a matchedUser
\*   [form |-> "nostats"]     a matchedUser without submitStats.acSubmissionNum
\*   [form |-> "stats", stats |-> <<...>>]   the acSubmissionNum list
LeetcodeAfter(url, up) ==
    CASE up.kind = "neterr" -> Failed(url, "LeetCode network error", 0)
      [] up.kind = "timeout" -> Failed(url, "LeetCode request timed out.", 0)
      [] OTHER ->
            IF up.status # 200
            THEN Failed(url, "LeetCode API HTTP", up.status)
            ELSE CASE up.page.form = "malformed" ->
                        Failed(url, "LeetCode: Invalid JSON response.", 0)
                   [] up.page.form = "nodata" ->
                        Failed(url, "LeetCode profile not found or is set to private.", 0)
                   [] up.page.form = "nostats" ->
                        Failed(url, "LeetCode unexpected error", 0)
                   [] OTHER -> LeetcodeScan(up.page.stats, 1, url)

fetch_leetcode_stats(url, up) ==
    Then(LeetcodeBefore(url), LeetcodeAfter(url, up))

\* fetch_geeksforgeeks_stats makes its call at once, inside the try block
GfgBefore(url) == Continue

\* A GeeksforGeeks page:
\*   div        a div whose text contains 'Problem Solved' exists
\*   divDigits  group 1 of Problem\s*Solved\s*(\d+) in that div's text, << >> if none
\*   htmlDigits what re.findall of the same pattern yields on the raw markup
GfgAfter(url, up) ==
    CASE up.kind = "neterr" -> Failed(url, "GfG network error", 0)
      [] up.kind = "timeout" -> Failed(url, "GfG unexpected error", 0)
      [] OTHER ->
            IF up.status >= 400
            THEN Failed(url, "GfG network error", up.status)
            ELSE IF up.page.div /\ up.page.divDigits # << >>
            THEN Solved(IntV(ParseInt(up.page.divDigits)), url)
            ELSE IF up.page.htmlDigits # << >>
            THEN Solved(IntV(ParseInt(up.page.htmlDigits[1])), url)
            ELSE Failed(url, "Could not parse solved count.", 0)

fetch_geeksforgeeks_stats(url, up) == Ret(GfgAfter(url, up))

\* the same check with the extraction inside the try block: what it raises
\* is caught by `except Exception`
CheckUsernameCaught(username, url, msg, caught) ==
    IF username.k = "raise" THEN Ret(Failed(url, caught, 0))
    ELSE IF ~Truthy(username.v) THEN Ret(Failed(url, msg, 0))
    ELSE Continue

\* fetch_codechef_stats up to its network call (lines 144-148)
CodechefBefore(url) ==
    CheckUsernameCaught(extract_username(url, "codechef"), url,
                        "Invalid CodeChef URL format.",
                        "CodeChef unexpected error")

\* max(numbers) of a non-empty list of digit texts
MaxOf(numbers) ==
    CHOOSE m \in {ParseInt(numbers[i]) : i \in DOMAIN numbers} :
        \A i \in DOMAIN numbers : ParseInt(numbers[i]) <= m

\* A CodeChef page:
\*   section         the section "rating-data-section problems-solved" exists
\*   sectionTotal    group 1 of Total\s*Problems\s*Solved:\s*(\d+) in its text
\*   sectionNumbers  re.findall(r'\d+') on its text
\*   span            a span whose text contains 'Problems Solved' exists
\*   spanNumbers     re.findall(r'\d+') on its text
\*   htmlTotal       group 1 of Total\s*Problems\s*Solved:\s*(\d+) in the markup
\*   htmlLoose       group 1 of Problems\s*Solved[:,]?\s*(\d+) in the markup
\* (a group is << >> when the pattern does not match)
CodechefSection(page) ==
    IF ~page.section THEN NA
    ELSE IF page.sectionTotal # << >> THEN IntV(ParseInt(page.sectionTotal))
    ELSE IF page.sectionNumbers # << >> THEN IntV(MaxOf(page.sectionNumbers))
    ELSE NA

CodechefSpan(page, soFar) ==
    IF soFar # NA THEN soFar
    ELSE IF page.span /\ page.spanNumbers # << >>
    THEN IntV(ParseInt(page.spanNumbers[1]))
    ELSE NA

CodechefCatchAll(page, soFar) ==
    IF soFar # NA THEN soFar
    ELSE IF page.htmlTotal # << >> THEN IntV(ParseInt(page.htmlTotal))
    ELSE IF page.htmlLoose # << >> THEN IntV(ParseInt(page.htmlLoose))
    ELSE NA

\* lines 192-195 with the error left out of the failure
CodechefResult_NoError(solved_count, url) == Solved(solved_count, url)

\* lines 192-195
CodechefResult(solved_count, url) ==
    IF solved_count = NA
    THEN Failed(url, "CodeChef: Could not find solved problems count (might be private or UI changed).", 0)
    ELSE Solved(solved_count, url)

CodechefAfter(url, up) ==
    CASE up.kind = "neterr" -> Failed(url, "CodeChef network error", 0)
      [] up.kind = "timeout" -> Failed(url, "CodeChef request timed out.", 0)
      [] OTHER ->
            IF up.status >= 400
            THEN Failed(url, "CodeChef network error", up.status)
            ELSE CodechefResult(
                    CodechefCatchAll(up.page,
                        CodechefSpan(up.page, CodechefSection(up.page))),
                    url)

fetch_codechef_stats(url, up) ==
    Then(CodechefBefore(url), CodechefAfter(url, up))

\* fetch_hackerrank_stats up to its network call (lines 210-212): extraction
\* is outside the try block
HackerrankBefore(url) ==
    CheckUsername(extract_username(url, "hackerrank"), url,
                  "Invalid HackerRank URL format.")

t_profile_not_found ==
    <<"p","r","o","f","i","l","e"," ","n","o","t"," ","f","o","u","n","d">>
t_page_not_found ==
    <<"p","a","g","e"," ","n","o","t"," ","f","o","u","n","d">>

BadgeClasses == {"badge-card", "ui-badge-card", "hacker-badge", "profile-badge"}

\* A HackerRank page: divs, the class sets of its div elements in document
\* order, and text, the characters of the markup outside the tags.

\* soup.find('div', class_='private-profile-page-wrapper')
HasPrivateMarker(page) ==
    \E i \in DOMAIN page.divs : "private-profile-page-wrapper" \in page.divs[i]

\* the test without its third disjunct
HackerrankPrivate_TwoTests(page) ==
    \/ HasPrivateMarker(page)
    \/ Contains(Lower(page.text), t_profile_not_found)

\* the test of lines 226-228
HackerrankPrivate(page) ==
    \/ HasPrivateMarker(page)
    \/ Contains(Lower(page.text), t_profile_not_found)
    \/ Contains(Lower(page.text), t_page_not_found)

\* soup.select('div.badge-card, div.ui-badge-card, div.hacker-badge, div.profile-badge')
BadgeCards(page) == {i \in DOMAIN page.divs : page.divs[i] \cap BadgeClasses # {}}

HackerrankAfter(url, up) ==
    CASE up.kind = "neterr" -> Failed(url, "HackerRank network error", 0)
      [] up.kind = "timeout" -> Failed(url, "HackerRank request timed out.", 0)
      [] OTHER ->
            IF up.status >= 400
            THEN Failed(url, "HackerRank network error", up.status)
            ELSE IF HackerrankPrivate(up.page)
            THEN Failed(url, "HackerRank profile private or not found.", 0)
            ELSE IF BadgeCards(up.page) = {}
            THEN Failed(url, "No badges found on HackerRank profile. (UI might have changed or no badges earned)", 0)
            ELSE Solved(IntV(Cardinality(BadgeCards(up.page))), url)

fetch_hackerrank_stats(url, up) ==
    Then(HackerrankBefore(url), HackerrankAfter(url, up))

Platforms == <<"leetcode", "geeksforgeeks", "codechef", "hackerrank">>

\* fetchers[k], up to the network call and as a whole
Before(k, url) ==
    CASE k = "leetcode" -> LeetcodeBefore(url)
      [] k = "geeksforgeeks" -> GfgBefore(url)
      [] k = "codechef" -> CodechefBefore(url)
      [] k = "hackerrank" -> HackerrankBefore(url)

Fetch(k, url, up) ==
    CASE k = "leetcode" -> fetch_leetcode_stats(url, up)
      [] k = "geeksforgeeks" -> fetch_geeksforgeeks_stats(url, up)
      [] k = "codechef" -> fetch_codechef_stats(url, up)
      [] k = "hackerrank" -> fetch_hackerrank_stats(url, up)

----------------------------------------------------------------------------
(* get_stats *)

PlatformSet == Range(Platforms)

\* request.get_json(): JSON null, a non-empty JSON array (any truthy value
\* that is not an object behaves alike), or an object with some of the four
\* fields ({} is the object with none)
NullBody == [kind |-> "null"]
ListBody == [kind |-> "list"]
ObjBody(fields) == [kind |-> "object", fields |-> fields]

\* `if not data` (line 256)
BodyTruthy(b) ==
    \/ b.kind = "list"
    \/ b.kind = "object" /\ DOMAIN b.fields # {}

\* data.get(k)
Get(b, k) == IF k \in DOMAIN b.fields THEN b.fields[k] ELSE NoneV

\* platform_keys_in_order (lines 274-277)
ScheduledKeys(b) == SelectSeq(Platforms, LAMBDA k : Truthy(Get(b, k)))

Pending == [k |-> "pending"]
NoUpstream == [kind |-> "none"]

NewTask(k, url) ==
    [platform |-> k, url |-> url, status |-> "created", out |-> Pending,
     up |-> NoUpstream]

\* results = await asyncio.gather: the results in the order of the
\* awaitables, whatever the order they completed in
Gather_CompletionOrder(t) == [i \in DOMAIN t |-> t[completed[i]].out.v]

Gather(t) == [i \in DOMAIN t |-> t[i].out.v]

IndexOf(ks, k) == CHOOSE i \in DOMAIN ks : ks[i] = k

\* lines 282-290: results keyed by position, placeholders for the rest
PlatformStats(ks, results) ==
    [k \in PlatformSet |->
        IF k \in Range(ks) THEN results[IndexOf(ks, k)] ELSE Placeholder]

\* lines 300-302: what one solved value adds to the total
Counted(solved_count) ==
    IF /\ solved_count.t \in {"int", "bool", "str"}
       /\ IsDigitText(PyStr(solved_count))
    THEN PyInt(solved_count)
    ELSE 0

RECURSIVE TotalFrom(_, _)
\* lines 294-304: the loop over platform_stats, from position i of the keys
TotalFrom(stats, i) ==
    IF i > Len(Platforms) THEN 0
    ELSE IF Platforms[i] = "hackerrank" THEN TotalFrom(stats, i + 1)
    ELSE Counted(stats[Platforms[i]].solved) + TotalFrom(stats, i + 1)

TotalSolved_WithHackerrank(stats) ==
    TotalFrom(stats, 1) + Counted(stats["hackerrank"].solved)

TotalSolved(stats) == TotalFrom(stats, 1)

\* jsonify({"platforms": platform_stats, "totalSolved": total_solved})
AggregateOf(platform_stats) ==
    [status |-> 200,
     platforms |-> platform_stats,
     totalSolved |-> TotalSolved(platform_stats)]

Aggregate(ks, results) == AggregateOf(PlatformStats(ks, results))

\* jsonify({"error": "No data provided"}), 400
NoData == [status |-> 400, error |-> "No data provided"]

\* an exception leaving get_stats: the server answers 500
ServerError(exc) == [status |-> 500, exception |-> exc]

NoResponse == [status |-> 0]

----------------------------------------------------------------------------
(* Timeouts of the network calls, in time units *)

\* aiohttp.ClientTimeout(total=15), lines 81, 154 and 220
LeetcodeTotal == 15
CodechefTotal == 15
HackerrankTotal == 15
\* session.get(url, headers=...) of line 116 passes no timeout: the session's
\* default applies, aiohttp's ClientTimeout(total=300)
GfgTotal == 300

Deadline(k) ==
    CASE k = "leetcode" -> LeetcodeTotal
      [] k = "geeksforgeeks" -> GfgTotal
      [] k = "codechef" -> CodechefTotal
      [] k = "hackerrank" -> HackerrankTotal

----------------------------------------------------------------------------
(* The requests and the upstream behaviours the aggregator is run on *)

\* the horizon of the clock: one unit past the 15 of the fetchers' timeouts
MaxClock == 16

t_alice == <<"a","l","i","c","e">>
u_leetcode == <<"h","t","t","p","s",":","/","/","l","/","u","/","a","l","i","c","e">>
u_gfg == <<"h","t","t","p","s",":","/","/","g","/","u","s","e","r","/","a","l","i","c","e">>
u_codechef == <<"h","t","t","p","s",":","/","/","c","/","u","s","e","r","s","/","a","l","i","c","e">>
u_codechef_nouser == <<"h","t","t","p","s",":","/","/","c","/","a","l","i","c","e">>
u_hackerrank == <<"h","t","t","p","s",":","/","/","k","/","p","r","o","f","i","l","e","/","a","l","i","c","e">>
\* urlparse raises ValueError("Invalid IPv6 URL") on it
u_bracket == <<"h","t","t","p",":","/","/","[">>

AggUrls(k) ==
    CASE k = "leetcode" -> {StrV(<< >>), StrV(u_leetcode), StrV(u_bracket)}
      [] k = "geeksforgeeks" -> {StrV(<< >>), StrV(u_gfg)}
      [] k = "codechef" -> {StrV(u_codechef), StrV(u_codechef_nouser), StrV(u_bracket)}
      [] k = "hackerrank" -> {StrV(u_hackerrank), StrV(u_bracket)}

AggBodies ==
    {NullBody, ListBody} \cup
    {ObjBody(f) : f \in UNION {
        {g \in [S -> UNION {AggUrls(k) : k \in PlatformSet}] :
            \A k \in S : g[k] \in AggUrls(k)} : S \in SUBSET PlatformSet}}

NoPage == [form |-> "malformed"]

\* the "count" values LeetCode's API may send for the "All" bucket
AggCounts == {IntV(3), IntV(0 - 2), StrV(<<"1", "2">>), NA, NoneV, BoolV(TRUE)}

GfgPage(div, divDigits, htmlDigits) ==
    [div |-> div, divDigits |-> divDigits, htmlDigits |-> htmlDigits]

CodechefPage(s, st, sn, sp, spn, ht, hl) ==
    [section |-> s, sectionTotal |-> st, sectionNumbers |-> sn, span |-> sp,
     spanNumbers |-> spn, htmlTotal |-> ht, htmlLoose |-> hl]

HackerrankPage(divs, text) == [divs |-> divs, text |-> text]

AggUpstream(k) ==
    CASE k = "leetcode" ->
            {NetErr, Http(404, NoPage), Http(200, [form |-> "nodata"])} \cup
            {Http(200, [form |-> "stats",
                        stats |-> <<[difficulty |-> "All", count |-> c]>>]) :
                c \in AggCounts}
      [] k = "geeksforgeeks" ->
            {NetErr,
             Http(200, GfgPage(TRUE, <<"5">>, <<<<"5">>>>)),
             Http(200, GfgPage(FALSE, << >>, << >>))}
      [] k = "codechef" ->
            {Http(404, NoPage),
             Http(200, CodechefPage(TRUE, <<"4">>, <<<<"4">>>>, FALSE, << >>, <<"4">>, <<"4">>)),
             Http(200, CodechefPage(FALSE, << >>, << >>, FALSE, << >>, << >>, << >>))}
      [] k = "hackerrank" ->
            {NetErr,
             Http(200, HackerrankPage(<<{"badge-card"}, {"hacker-badge"}>>, << >>)),
             Http(200, HackerrankPage(<<{"profile"}>>, << >>)),
             Http(200, HackerrankPage(<<{"private-profile-page-wrapper"}>>, << >>))}

----------------------------------------------------------------------------
(* The aggregator as a state machine: one request, from its arrival to the *)
(* answer.  The handler runs up to `await asyncio.gather`, the     *)
(* tasks run concurrently, and the handler resumes when gather does.       *)

ExIdle == [k |-> "idle"]

InitAgg ==
    /\ pc = "received"
    /\ body \in AggBodies
    /\ keys = << >>
    /\ task = << >>
    /\ completed = << >>
    /\ clock = 0
    /\ response = NoResponse
    /\ exIn = ExIdle /\ exOut = ExIdle
    /\ fIn = ExIdle /\ fOut = ExIdle

\* get_stats from its entry to the await of line 280 (to its return when
\* it returns or raises before, or when gather has nothing to wait for)
Launch ==
    /\ pc = "received"
    /\ clock' = 0
    /\ completed' = << >>
    /\ IF ~BodyTruthy(body)
       THEN /\ response' = NoData
            /\ pc' = "responded"
            /\ UNCHANGED <<keys, task>>
       ELSE IF body.kind # "object"
       THEN /\ response' = ServerError("AttributeError")
            /\ pc' = "responded"
            /\ UNCHANGED <<keys, task>>
       ELSE /\ keys' = ScheduledKeys(body)
            /\ task' = [i \in DOMAIN keys' |-> NewTask(keys'[i], Get(body, keys'[i]))]
            /\ IF keys' = << >>
               THEN /\ response' = Aggregate(keys', Gather(task'))
                    /\ pc' = "responded"
               ELSE /\ response' = response
                    /\ pc' = "gathering"
    /\ UNCHANGED <<body, exVars, fVars>>

Finish(i, outcome, up) ==
    /\ task' = [task EXCEPT ![i].status = IF outcome.k = "raise" THEN "raised" ELSE "done",
                            ![i].out = outcome,
                            ![i].up = up]
    /\ completed' = Append(completed, i)

BeginWith(i, before) ==
    IF before = Continue
    THEN /\ task' = [task EXCEPT ![i].status = "running"]
         /\ UNCHANGED completed
    ELSE Finish(i, before, NoUpstream)

\* task i runs from its start to its first suspension: the network call, or
\* its end when it returns or raises before the call.  The event loop starts
\* the tasks in the order gather received them.
Begin(i) ==
    /\ pc = "gathering"
    /\ task[i].status = "created"
    /\ \A j \in 1..(i - 1) : task[j].status # "created"
    /\ BeginWith(i, Before(task[i].platform, task[i].url))
    /\ UNCHANGED <<pc, body, keys, clock, response, exVars, fVars>>

Started == \A i \in DOMAIN task : task[i].status # "created"

\* the upstream of task i answers (or the call fails) and the fetcher runs
\* to its end
Respond(i) ==
    /\ pc = "gathering"
    /\ Started
    /\ task[i].status = "running"
    /\ \E up \in AggUpstream(task[i].platform) :
            Finish(i, Fetch(task[i].platform, task[i].url, up), up)
    /\ UNCHANGED <<pc, body, keys, clock, response, exVars, fVars>>

\* the ClientTimeout of task i's call expires
Timeout(i) ==
    /\ pc = "gathering"
    /\ Started
    /\ task[i].status = "running"
    /\ clock >= Deadline(task[i].platform)
    /\ Finish(i, Fetch(task[i].platform, task[i].url, TimedOut), TimedOut)
    /\ UNCHANGED <<pc, body, keys, clock, response, exVars, fVars>>

\* a time unit passes while calls are in flight; it cannot pass a deadline
Tick ==
    /\ pc = "gathering"
    /\ Started
    /\ \E i \in DOMAIN task : task[i].status = "running"
    /\ \A i \in DOMAIN task :
            task[i].status = "running" => clock < Deadline(task[i].platform)
    /\ clock < MaxClock
    /\ clock' = clock + 1
    /\ UNCHANGED <<pc, body, keys, task, completed, response, exVars, fVars>>

\* gather has every result: get_stats resumes after line 280 and returns
Answer ==
    /\ pc = "gathering"
    /\ \A i \in DOMAIN task : task[i].status = "done"
    /\ response' = Aggregate(keys, Gather(task))
    /\ pc' = "responded"
    /\ UNCHANGED <<body, keys, task, completed, clock, exVars, fVars>>

\* a task raised: gather (return_exceptions is not set) hands the first
\* exception to get_stats at once, which does not catch it.  What becomes of
\* the tasks still running is up to the server's event loop, outside the
\* source: the model leaves them as they are.
Abort ==
    /\ pc = "gathering"
    /\ Started
    /\ \E i \in DOMAIN completed :
        /\ task[completed[i]].status = "raised"
        /\ \A j \in 1..(i - 1) : task[completed[j]].status # "raised"
        /\ response' = ServerError(task[completed[i]].out.exc)
    /\ pc' = "responded"
    /\ UNCHANGED <<body, keys, task, completed, clock, exVars, fVars>>

Next ==
    \/ Launch
    \/ \E i \in DOMAIN task : Begin(i)
    \/ \E i \in DOMAIN task : Respond(i)
    \/ \E i \in DOMAIN task : Timeout(i)
    \/ Tick
    \/ Answer
    \/ Abort

Spec == InitAgg /\ [][Next]_vars

----------------------------------------------------------------------------
(* extract_username on its own: the argument pairs it is run on.  A URL is *)
(* built as prefix, host, slashes, path shape, slashes, suffix; a URL      *)
(* without a prefix has no scheme and no '//', so urlparse takes the host  *)
(* as part of the path.                                                    *)

\* how many slashes may lead and trail the path
MaxSlashes == 2

Slashes(n) == [i \in 1..n |-> "/"]

ExPrefixes == {<<"h","t","t","p","s",":","/","/">>, <<"H","T","T","P",":","/","/">>, <<"/","/">>, << >>}
ExHosts == {<<"l","e","e","t","c","o","d","e",".","c","o","m">>, <<"h">>}
ExSuffixes == {<< >>, <<"?","u","/","b">>, <<"#","x">>}
ExShapes == {t_alice, <<"u","/","a","l","i","c","e">>, <<"u","s","e","r","/","a","l","i","c","e">>, <<"p","r","o","f","i","l","e","/","a","l","i","c","e">>,
             <<"u","s","e","r","s","/","a","l","i","c","e">>, <<"u","s","e","r","s","/","a","l","i","c","e","/","x">>, <<"a","u","t","h","/","u","s","e","r","/","p","r","o","f","i","l","e","/","a","l","i","c","e">>,
             <<"u">>, << >>}

ExInputs ==
    {[url |-> StrV(pre \o host \o Slashes(lead) \o shape \o Slashes(trail) \o suf),
      platform |-> k, prefix |-> pre, shape |-> shape] :
        pre \in ExPrefixes, host \in ExHosts, lead \in 1..MaxSlashes,
        shape \in ExShapes, trail \in 0..MaxSlashes, suf \in ExSuffixes,
        k \in PlatformSet \cup {"other"}}
    \cup
    {[url |-> u, platform |-> k, prefix |-> << >>, shape |-> << >>] :
        u \in {IntV(7), StrV(u_bracket), StrV(<< >>)}, k \in PlatformSet}

InitExtract ==
    /\ exIn \in ExInputs
    /\ exOut = Pending
    /\ pc = "idle" /\ body = NullBody /\ keys = << >> /\ task = << >>
    /\ completed = << >> /\ clock = 0 /\ response = NoResponse
    /\ fIn = ExIdle /\ fOut = ExIdle

Extract ==
    /\ exOut = Pending
    /\ exOut' = extract_username(exIn.url, exIn.platform)
    /\ UNCHANGED <<exIn, aggVars, fVars>>

SpecExtract == InitExtract /\ [][Extract]_vars

----------------------------------------------------------------------------
(* A fetcher on its own: the URLs get_stats can hand it (truthy values)    *)
(* and the upstream behaviours it is run on.                               *)

\* the longest acSubmissionNum list, and the most div elements of a page
MaxStats == 2
MaxDivs == 2

SeqsUpTo(S, n) == UNION {[1..m -> S] : m \in 0..n}

FetchUrls(k) ==
    CASE k = "leetcode" -> {StrV(u_leetcode), StrV(u_bracket), IntV(7)}
      [] k = "geeksforgeeks" -> {StrV(u_gfg)}
      [] k = "codechef" -> {StrV(u_codechef), StrV(u_codechef_nouser), StrV(u_bracket), IntV(7)}
      [] k = "hackerrank" -> {StrV(u_hackerrank), StrV(u_bracket), IntV(7)}

LeetcodeStats ==
    {[difficulty |-> "All", count |-> c] : c \in AggCounts}
    \cup {[difficulty |-> "Easy", count |-> IntV(1)],
          [difficulty |-> "All"],
          [count |-> IntV(1)]}

LeetcodePages ==
    {[form |-> "malformed"], [form |-> "nodata"], [form |-> "nostats"]}
    \cup {[form |-> "stats", stats |-> s] : s \in SeqsUpTo(LeetcodeStats, MaxStats)}

GfgPages ==
    {GfgPage(d, dd, hd) :
        d \in BOOLEAN, dd \in {<< >>, <<"5">>, <<"1", "2">>},
        hd \in {<< >>, <<<<"7">>>>, <<<<"5">>, <<"9">>>>}}

CodechefPages ==
    {CodechefPage(s, st, sn, sp, spn, ht, hl) :
        s \in BOOLEAN, st \in {<< >>, <<"4">>},
        sn \in {<< >>, <<<<"2">>, <<"1", "0">>>>},
        sp \in BOOLEAN, spn \in {<< >>, <<<<"3">>, <<"8">>>>},
        ht \in {<< >>, <<"6">>}, hl \in {<< >>, <<"9">>}}

HackerrankDivs ==
    {{"badge-card"}, {"ui-badge-card"}, {"hacker-badge"}, {"profile-badge"},
     {"private-profile-page-wrapper"}, {"profile"}}

HackerrankTexts ==
    {<< >>, <<"P","r","o","f","i","l","e"," ","N","o","t"," ","F","o","u","n","d">>, <<"x","p","r","o","f","i","l","e"," ","n","o","t"," ","f","o","u","n","d",".">>, <<"P","a","g","e"," ","N","o","t"," ","F","o","u","n","d">>,
     <<"p","r","o","f","i","l","e"," ","f","o","u","n","d">>, <<"n","o","t"," ","f","o","u","n","d">>}

HackerrankPages ==
    {HackerrankPage(d, x) :
        d \in SeqsUpTo(HackerrankDivs, MaxDivs), x \in HackerrankTexts}

Statuses == {200, 404, 500}

FetchPages(k) ==
    CASE k = "leetcode" -> LeetcodePages
      [] k = "geeksforgeeks" -> GfgPages
      [] k = "codechef" -> CodechefPages
      [] k = "hackerrank" -> HackerrankPages

FetchUpstream(k) ==
    {NetErr, TimedOut} \cup {Http(s, p) : s \in Statuses, p \in FetchPages(k)}

InitFetch ==
    /\ \E k \in PlatformSet :
        fIn \in {[platform |-> k, url |-> u, up |-> up] :
                    u \in FetchUrls(k), up \in FetchUpstream(k)}
    /\ fOut = Pending
    /\ pc = "idle" /\ body = NullBody /\ keys = << >> /\ task = << >>
    /\ completed = << >> /\ clock = 0 /\ response = NoResponse
    /\ exIn = ExIdle /\ exOut = ExIdle

RunFetch ==
    /\ fOut = Pending
    /\ fOut' = Fetch(fIn.platform, fIn.url, fIn.up)
    /\ UNCHANGED <<fIn, aggVars, exVars>>

SpecFetch == InitFetch /\ [][RunFetch]_vars

----------------------------------------------------------------------------
(* Properties *)

Answered == pc = "responded"
Aggregated == Answered /\ response.status = 200
Finished(i) == task[i].status \in {"done", "raised"}
HasError(r) == "error" \in DOMAIN r
TaskOf(k) == CHOOSE i \in DOMAIN task : task[i].platform = k

\* C1: a fetcher never raises: every task that has finished returned a
\* PlatformResult, and a result that reports a failure has solved = "N/A"
\* and an error.  (Stated as claimed; the code violates it.)
C1_FetchersNeverRaise ==
    \A i \in DOMAIN task :
        Finished(i) =>
            /\ task[i].out.k = "return"
            /\ HasError(task[i].out.v) => task[i].out.v.solved = NA

\* C2: every answer to a request whose body is a JSON object holds a
\* platforms mapping with exactly the four platform keys.  (Stated as
\* claimed; the code violates it.)
C2_AlwaysFourKeys ==
    Answered /\ body.kind = "object" =>
        /\ "platforms" \in DOMAIN response
        /\ DOMAIN response.platforms = PlatformSet

\* C3: a request object that supplies no URL (every field absent or empty,
\* the object {} included) is answered with the aggregate of four
\* placeholders and totalSolved 0, and no fetcher is run.  (Stated as
\* claimed; the code violates it.)
C3_NoUrlsAllPlaceholders ==
    Answered /\ body.kind = "object"
             /\ (\A k \in PlatformSet : ~Truthy(Get(body, k))) =>
        /\ response = [status |-> 200,
                       platforms |-> [k \in PlatformSet |-> Placeholder],
                       totalSolved |-> 0]
        /\ task = << >>

\* the three entries that count towards totalSolved
Summed(f(_)) ==
    f(response.platforms["leetcode"].solved)
    + f(response.platforms["geeksforgeeks"].solved)
    + f(response.platforms["codechef"].solved)

\* C4 as claimed: an integer counts at its value, anything else as 0
IntegerOnly(v) == IF v.t = "int" THEN v.n ELSE 0

\* C4 (original statement): totalSolved is the sum of the integer solved
\* values of leetcode, geeksforgeeks and codechef, every non-integer value
\* (a string included) counting as 0
C4_TotalOfIntegersOnly ==
    Aggregated => response.totalSolved = Summed(IntegerOnly)

\* C4 as amended: a non-negative integer counts at its value, a text of
\* decimal digits at the number it spells, anything else as 0
DigitsToo(v) ==
    IF v.t = "int" /\ v.n >= 0 THEN v.n
    ELSE IF v.t = "str" /\ IsDigitText(v.s) THEN ParseInt(v.s)
    ELSE 0

\* C4 (amended): totalSolved is the sum, over leetcode, geeksforgeeks and
\* codechef, of the solved values that are non-negative integers or texts of
\* decimal digits; every other value ("N/A", a negative integer, a boolean,
\* null) counts as 0, and the hackerrank entry never contributes
C4_TotalOfDigits ==
    Aggregated => response.totalSolved = Summed(DigitsToo)

C4_Witness ==
    /\ Aggregated
    /\ response.platforms["hackerrank"].solved = IntV(2)
    /\ response.platforms["leetcode"].solved = StrV(<<"1", "2">>)
    /\ response.platforms["geeksforgeeks"].solved = IntV(5)
    /\ response.totalSolved = 17

\* C5 (original statement): in every PlatformResult of a response, fetched or
\* placeholder, error is present iff solved = "N/A", and solved is an
\* integer otherwise
C5_ErrorIffNA ==
    Aggregated =>
        \A k \in PlatformSet :
            /\ HasError(response.platforms[k]) <=> response.platforms[k].solved = NA
            /\ response.platforms[k].solved # NA =>
                    response.platforms[k].solved.t = "int"

\* C5 (amended): a PlatformResult that carries an error has solved = "N/A";
\* the placeholder of a platform without URL has solved = "N/A" and no
\* error; a result of the geeksforgeeks, codechef or hackerrank fetcher has
\* an error iff solved = "N/A" and a non-negative integer solved otherwise
C5_ErrorOnlyWithNA ==
    Aggregated =>
        \A k \in PlatformSet :
            /\ HasError(response.platforms[k]) => response.platforms[k].solved = NA
            /\ k \notin Range(keys) => response.platforms[k] = Placeholder
            /\ k \in Range(keys) /\ k # "leetcode" =>
                /\ response.platforms[k].solved = NA => HasError(response.platforms[k])
                /\ response.platforms[k].solved # NA =>
                    /\ response.platforms[k].solved.t = "int"
                    /\ response.platforms[k].solved.n >= 0

C5_Witness ==
    /\ Aggregated
    /\ response.platforms["leetcode"] = Placeholder
    /\ HasError(response.platforms["codechef"])
    /\ response.platforms["geeksforgeeks"].solved = IntV(5)
    /\ ~HasError(response.platforms["geeksforgeeks"])

\* C6: once the batch is launched, get_stats answers only after every
\* scheduled fetcher has completed, and the answer is the aggregate with
\* success status.  (Stated as claimed; the code violates it.)
C6_AnswersAfterAll ==
    Answered /\ keys # << >> =>
        /\ \A i \in DOMAIN task : Finished(i)
        /\ response.status = 200

\* C7: in every aggregate answer, the entry under a scheduled platform's key
\* is what that platform's fetcher makes of that platform's URL and of what
\* that platform's upstream did, whatever the order of completion
C7_ResultUnderOwnKey ==
    Aggregated =>
        \A k \in Range(keys) :
            response.platforms[k] =
                Fetch(k, Get(body, k), task[TaskOf(k)].up).v

C7_Witness ==
    /\ Aggregated
    /\ Len(keys) = 4
    /\ completed = <<3, 4, 2, 1>>
    /\ \A k \in PlatformSet : ~HasError(response.platforms[k])

\* C8: no fetcher waits for its upstream beyond 15 time units.  (Stated as
\* claimed; the code violates it.)
C8_NoWaitBeyondBound ==
    \A i \in DOMAIN task : task[i].status = "running" => clock <= 15

\* the URL shapes the claim names, as paths
KnownShapes(k) ==
    CASE k = "leetcode" -> {t_alice, <<"u","/","a","l","i","c","e">>}
      [] k = "geeksforgeeks" -> {<<"u","s","e","r","/","a","l","i","c","e">>, <<"p","r","o","f","i","l","e","/","a","l","i","c","e">>, t_alice}
      [] k = "codechef" -> {<<"u","s","e","r","s","/","a","l","i","c","e">>, <<"u","s","e","r","s","/","a","l","i","c","e","/","x">>}
      [] k = "hackerrank" -> {<<"p","r","o","f","i","l","e","/","a","l","i","c","e">>, t_alice}
      [] OTHER -> {}

HackerrankFetched ==
    /\ fOut # Pending
    /\ fOut # ExIdle
    /\ fIn.platform = "hackerrank"
    /\ fIn.url = StrV(u_hackerrank)
    /\ fIn.up.kind = "http"
    /\ fIn.up.status = 200

SaysProfileNotFound(page) == Contains(Lower(page.text), t_profile_not_found)
SaysPageNotFound(page) == Contains(Lower(page.text), t_page_not_found)
BadgeCount(page) ==
    Cardinality({i \in DOMAIN page.divs :
                    \E c \in BadgeClasses : c \in page.divs[i]})
PrivateResult(url) == Failed(url, "HackerRank profile private or not found.", 0)

\* C10 (original statement): the page counts as private/missing exactly when
\* it holds the private-profile marker or "profile not found"; for every
\* other page the result is solved = the number of badge elements, whatever
\* it is, with no error
C10_PrivateIffMarkerOrProfileNotFound ==
    HackerrankFetched =>
        IF HasPrivateMarker(fIn.up.page) \/ SaysProfileNotFound(fIn.up.page)
        THEN fOut = Ret(PrivateResult(fIn.url))
        ELSE fOut = Ret(Solved(IntV(BadgeCount(fIn.up.page)), fIn.url))

\* C10 (amended): the page counts as private/missing exactly when it holds
\* the private-profile marker, "profile not found" or "page not found"
\* (case-insensitive); any other page with at least one badge element yields
\* solved = the number of badge elements and no error, and any other page
\* with none yields solved = "N/A" with an error
C10_PrivateOrBadgesOrNone ==
    HackerrankFetched =>
        IF \/ HasPrivateMarker(fIn.up.page)
           \/ SaysProfileNotFound(fIn.up.page)
           \/ SaysPageNotFound(fIn.up.page)
        THEN fOut = Ret(PrivateResult(fIn.url))
        ELSE IF BadgeCount(fIn.up.page) >= 1
        THEN fOut = Ret(Solved(IntV(BadgeCount(fIn.up.page)), fIn.url))
        ELSE /\ fOut.k = "return"
             /\ fOut.v.solved = NA
             /\ HasError(fOut.v)
             /\ fOut.v # PrivateResult(fIn.url)

C10_Witness ==
    /\ HackerrankFetched
    /\ fIn.up.page = HackerrankPage(<<{"ui-badge-card"}, {"profile-badge"}>>, <<"p","r","o","f","i","l","e"," ","f","o","u","n","d">>)
    /\ fOut = Ret(Solved(IntV(2), fIn.url))

====
